---- MODULE Spec2Model ----
(***************************************************************************)
(* zest: EPUB upload and EPUB -> Markdown extraction (app/utils/epub.ts,   *)
(* app/routes/books.new.ts) and the chat page loader (chats.$chatId).      *)
(*                                                                         *)
(* Strings whose structure the code inspects (paths, hrefs, media types,   *)
(* CFI addresses) are sequences of one-character strings; strings the code *)
(* only copies are TLA+ strings.                                           *)
(***************************************************************************)
EXTENDS Naturals, Sequences, FiniteSets, TLC

(***************************************************************************)
(* Bounds of the model.                                                    *)
(***************************************************************************)
MaxSpine == 2       \* itemref elements in a spine
MaxSteps == 2       \* '!' steps in a CFI address
MaxClock == 2       \* the latest time
MaxMessages == 2    \* messages handed to generateChatTitle
MaxSends == 2       \* messages sent from the chat page
MaxEvents == 3      \* locationChanged events of the book page

(***************************************************************************)
(* JavaScript string primitives, on sequences of characters.               *)
(***************************************************************************)
\* String.prototype.endsWith
EndsWith(s, suf) ==
    /\ Len(suf) <= Len(s)
    /\ SubSeq(s, Len(s) - Len(suf) + 1, Len(s)) = suf

\* String.prototype.includes
Includes(s, sub) ==
    \E k \in 0..Len(s) :
        /\ k + Len(sub) <= Len(s)
        /\ SubSeq(s, k + 1, k + Len(sub)) = sub

\* positions of character c in s
Positions(s, c) == { k \in 1..Len(s) : s[k] = c }

SetMin(S) == CHOOSE x \in S : \A y \in S : x <= y
SetMax(S) == CHOOSE x \in S : \A y \in S : y <= x

\* String.prototype.split(c): the segments between the occurrences of c
RECURSIVE Split(_, _)
Split(s, c) ==
    IF Positions(s, c) = {} THEN << s >>
    ELSE LET k == SetMin(Positions(s, c))
         IN  << SubSeq(s, 1, k - 1) >> \o Split(SubSeq(s, k + 1, Len(s)), c)

\* Array.prototype.join(c)
RECURSIVE Join(_, _)
Join(segs, c) ==
    IF Len(segs) = 0 THEN << >>
    ELSE IF Len(segs) = 1 THEN segs[1]
    ELSE segs[1] \o << c >> \o Join(Tail(segs), c)

\* Array.prototype.slice(0, -1)
DropLast(segs) == SubSeq(segs, 1, Len(segs) - 1)

(***************************************************************************)
(* Character strings of the archives.                                      *)
(***************************************************************************)
Html == << "h", "t", "m", "l" >>
DotHtml == << "." >> \o Html
DotXhtml == << ".", "x" >> \o Html
HrefA == << "a" >> \o DotXhtml               \* "a.xhtml"
HrefB == << "b" >> \o DotHtml                \* "b.html"
HrefP == << "p" >>                           \* "p": no extension
HrefS == << "s", ".", "c", "s", "s" >>       \* "s.css"
MediaXhtml == << "x" >> \o Html \o << "+", "x", "m", "l" >>   \* "xhtml+xml"
MediaHtml == << "t", "/" >> \o Html                          \* "t/html"
MediaCss == << "t", "/", "c", "s", "s" >>                    \* "t/css"
NoAttr == << >>      \* getAttribute() of a missing attribute: null, falsy
ContainerPath == << "M", "/", "c" >>         \* 'META-INF/container.xml'
RootOpf == << "o" >>                         \* a package document at the root
DirOpf == << "O", "/", "o" >>                \* a package document in directory O
NestedOpf == << "N", "/", "O", "/", "o" >>   \* a package document in directory N/O

(***************************************************************************)
(* Archive entries.  Every text is a record with a kind.                   *)
(***************************************************************************)
Undefined == [kind |-> "undefined"]     \* contents.file(p) of a missing entry
EmptyText == [kind |-> "empty"]         \* an entry of zero characters: ''

\* mutant: only the empty string is taken as missing
FalsyOnlyEmpty(text) == text.kind = "empty"

\* !x for the result of contents.file(p)?.async('string')
Falsy(text) == text.kind \in {"undefined", "empty"}

\* HTML nodes of a content document's body
NodeH1 == [tag |-> "h1", text |-> "Chapter"]
NodeP == [tag |-> "p", text |-> "Hello"]
NodeImg == [tag |-> "img", text |-> "pic"]
NodeA == [tag |-> "a", text |-> "link"]
NodeHr == [tag |-> "hr", text |-> ""]
NodeLi == [tag |-> "li", text |-> "item"]

\* content documents: an explicit <body>, a bare fragment (the HTML parser
\* supplies the body), and a <frameset> document (it has no body element)
DocA == [kind |-> "html", root |-> "body", nodes |-> << NodeH1, NodeP, NodeImg >>]
DocB == [kind |-> "html", root |-> "fragment", nodes |-> << NodeA, NodeHr, NodeLi >>]
DocFrameset == [kind |-> "html", root |-> "frameset", nodes |-> << >>]
DocCss == [kind |-> "css"]

\* <item> elements of a manifest, in the order they are written
NoId == ""       \* getAttribute('id') / ('idref') of a missing attribute
ItemA == [id |-> "a", href |-> HrefP, mediaType |-> MediaHtml]
ItemCss == [id |-> "b", href |-> HrefS, mediaType |-> MediaCss]
ItemB == [id |-> "b", href |-> HrefB, mediaType |-> NoAttr]
ItemNoId == [id |-> NoId, href |-> HrefA, mediaType |-> MediaXhtml]
ItemNoHref == [id |-> "a", href |-> NoAttr, mediaType |-> MediaXhtml]
ItemOrder == << ItemA, ItemCss, ItemB, ItemNoId, ItemNoHref >>

\* the subsequence of s at the positions in keep
RECURSIVE Pick(_, _)
Pick(s, keep) ==
    IF Len(s) = 0 THEN << >>
    ELSE (IF Len(s) \in keep THEN Pick(DropLast(s), keep) \o << s[Len(s)] >>
          ELSE Pick(DropLast(s), keep))

NoElement == [present |-> FALSE, children |-> << >>]
Element(children) == [present |-> TRUE, children |-> children]

Manifests ==
    { NoElement } \cup { Element(Pick(ItemOrder, keep)) : keep \in SUBSET (1..Len(ItemOrder)) }

\* idref attributes of <itemref>: missing, two ordinary ids, and a name that
\* every JavaScript object inherits from Object.prototype
IdRefs == { NoId, "a", "b", "constructor" }
SeqsUpTo(S, n) == UNION { [1..k -> S] : k \in 0..n }
Spines == { NoElement } \cup { Element(refs) : refs \in SeqsUpTo(IdRefs, MaxSpine) }

\* <dc:title> and <dc:creator> text contents, in document order
Metas ==
    { [titles |-> << >>, creators |-> << >>],
      [titles |-> << "" >>, creators |-> << "Ann", "Bob" >>],
      [titles |-> << "T1", "T2" >>, creators |-> << "" >>] }

Packages ==
    { [kind |-> "package", titles |-> m.titles, creators |-> m.creators,
       spine |-> sp, manifest |-> mf] : m \in Metas, sp \in Spines, mf \in Manifests }

\* container.xml: the full-path attributes of its <rootfile> elements
ContainerDoc(paths) == [kind |-> "container", rootfiles |-> paths]
Containers ==
    { Undefined, EmptyText, ContainerDoc(<< >>), ContainerDoc(<< NoAttr >>),
      ContainerDoc(<< RootOpf >>), ContainerDoc(<< DirOpf, RootOpf >>),
      ContainerDoc(<< NestedOpf >>) }

\* the content files of an archive, by href
FileLayouts ==
    { [p |-> DocA, b |-> DocB], [p |-> EmptyText, b |-> Undefined],
      [p |-> DocFrameset, b |-> DocB] }

\* the directory of a package document path, with its trailing slash
DirOf(path) ==
    IF path = DirOpf THEN << "O", "/" >>
    ELSE IF path = NestedOpf THEN << "N", "/", "O", "/" >>
    ELSE << >>

\* the entries of an archive: path -> text (missing entries are not in the
\* domain)
Present(path, text) == IF text.kind = "undefined" THEN << >> ELSE (path :> text)

EntriesOf(container, opfAt, opf, files) ==
    Present(ContainerPath, container) @@ Present(opfAt, opf)
    @@ Present(DirOf(opfAt) \o HrefP, files.p)
    @@ Present(DirOf(opfAt) \o HrefB, files.b)
    @@ (DirOf(opfAt) \o HrefS :> DocCss)

NotAZip == [zip |-> FALSE, entries |-> << >>]

\* a small well-formed package document
SamplePackage ==
    [kind |-> "package", titles |-> << "T1", "T2" >>, creators |-> << "Ann", "Bob" >>,
     spine |-> Element(<< "a", "b" >>), manifest |-> Element(<< ItemA, ItemB >>)]

\* archives over every container descriptor, with the package document
\* missing, empty or well-formed
ContainerArchives ==
    { [zip |-> TRUE,
       entries |-> EntriesOf(c, at, opf, [p |-> DocA, b |-> DocB])] :
         c \in Containers, at \in { RootOpf, DirOpf, NestedOpf },
         opf \in { Undefined, EmptyText, SamplePackage } }

\* archives with a package document
PackageArchives ==
    { [zip |-> TRUE,
       entries |-> EntriesOf(ContainerDoc(<< at >>), at, pkg, files)] :
         at \in { RootOpf, DirOpf }, pkg \in Packages, files \in FileLayouts }

Archives == { NotAZip } \cup ContainerArchives \cup PackageArchives

(***************************************************************************)
(* State.                                                                  *)
(***************************************************************************)
Reqs == { 1, 2 }     \* upload requests (one call of clientAction each)

VARIABLES
    arch,       \* arch[r]: the bytes of the uploaded file, as an archive
    pc,         \* pc[r]: where request r is
    conv,       \* conv[r]: the locals of convertEpubToMarkdown
    parse,      \* parse[r]: the locals of parseEpub
    books,      \* the 'books' object store: id -> Book
    response,   \* response[r]: what clientAction returned
    log,        \* log[r]: the stages request r has run, in order
    settings,   \* the 'settings' object store: the 'llm-settings' record
    chats,      \* the 'chats' object store: id -> Chat
    loader,     \* the chat page's clientLoader: its position and locals
    clock,      \* the time `new Date()` gives
    lastOp,     \* the last call on the 'books' store, and what it returned
    nav,        \* the last run of a loader of the chats routes, and its redirect
    page,       \* the chat page component: its props and state
    titling,    \* a call of generateChatTitle: its arguments and its result
    viewer      \* the book page component: its props and the saves under way

uploadVars == << arch, pc, conv, parse, response, log >>
chatVars == << settings, chats, loader >>
dbVars == << clock, lastOp >>
uiVars == << nav, page, titling, viewer >>
vars ==
    << arch, pc, conv, parse, books, response, log, settings, chats, loader,
       clock, lastOp, nav, page, titling, viewer >>

NoError == ""
NoMarkdown == << << "<none>" >> >>
\* Book.location is optional: a book that was never read has none
NoLocation == [stored |-> FALSE, start |-> << >>, end |-> << >>, percentage |-> 0]
NoBook == [id |-> 0, location |-> NoLocation]
NoSettings == [id |-> ""]

ConvInit ==
    [rootfilePath |-> << >>, opfDirWithTrailingSlash |-> << >>,
     title |-> "", creator |-> "", itemrefs |-> << >>,
     idToHref |-> << >>, idToMediaType |-> << >>,
     markdownContent |-> NoMarkdown, i |-> 0, filePath |-> << >>, returned |-> FALSE]

ParseInit ==
    [metadata |-> [title |-> "", creator |-> ""], markdown |-> NoMarkdown,
     locations |-> "", book |-> NoBook, error |-> NoError, calls |-> 0]

Stage(name, index) == [stage |-> name, index |-> index]

(***************************************************************************)
(* Pure parts of convertEpubToMarkdown.                                    *)
(***************************************************************************)
\* contents.file(path)?.async('string')
ReadEntry(archive, path) ==
    IF path \in DOMAIN archive.entries THEN archive.entries[path] ELSE Undefined

\* parser.parseFromString(text, 'application/xml'): text that is no such
\* document parses to a document without the elements looked for
ContainerXml(text) == IF text.kind = "container" THEN text ELSE ContainerDoc(<< >>)
PackageXml(text) ==
    IF text.kind = "package" THEN text
    ELSE [kind |-> "package", titles |-> << >>, creators |-> << >>,
          spine |-> NoElement, manifest |-> NoElement]

\* mutant: a package document at the root is assumed when none is named
RootfilePathOrDefault(containerDoc) ==
    IF Len(containerDoc.rootfiles) = 0 \/ containerDoc.rootfiles[1] = NoAttr
    THEN RootOpf ELSE containerDoc.rootfiles[1]

\* getElementsByTagName('rootfile')[0]?.getAttribute('full-path')
RootfilePath(containerDoc) ==
    IF Len(containerDoc.rootfiles) = 0 THEN NoAttr ELSE containerDoc.rootfiles[1]

\* rootfilePath.split('/').slice(0, -1).join('/')
OpfDir(path) == Join(DropLast(Split(path, "/")), "/")

\* mutant: the separator is put after an empty directory too
WithTrailingSlashAlways(dir) == dir \o << "/" >>

\* opfDir ? `${opfDir}/` : ''
WithTrailingSlash(dir) == IF dir = << >> THEN << >> ELSE dir \o << "/" >>

\* mutant: the last element is taken instead of the first
LastTextOr(texts, fallback) ==
    IF Len(texts) = 0 \/ texts[Len(texts)] = "" THEN fallback ELSE texts[Len(texts)]

\* mutant: the fallback stands in for a missing element only (??)
FirstTextOrNullish(texts, fallback) ==
    IF Len(texts) = 0 THEN fallback ELSE texts[1]

\* getElementsByTagName(tag)[0]?.textContent || fallback
FirstTextOr(texts, fallback) ==
    IF Len(texts) = 0 \/ texts[1] = "" THEN fallback ELSE texts[1]

\* obj[key] = value
JsPut(obj, key, value) == [k \in DOMAIN obj \cup { key } |-> IF k = key THEN value ELSE obj[k]]

\* the loop over the manifest's <item> elements: << idToHref, idToMediaType >>
RECURSIVE ManifestMaps(_)
ManifestMaps(items) ==
    IF Len(items) = 0 THEN << << >>, << >> >>
    ELSE LET before == ManifestMaps(DropLast(items))
             item == items[Len(items)]
         IN  IF item.id # NoId /\ item.href # NoAttr
             THEN << JsPut(before[1], item.id, item.href),
                     IF item.mediaType # NoAttr
                     THEN JsPut(before[2], item.id, item.mediaType)
                     ELSE before[2] >>
             ELSE before

\* names every object literal inherits from Object.prototype, and the
\* (truthy, non-string) value found under them
ProtoKeys == { "constructor" }
ProtoValue == << "[Function: Object]" >>

\* obj[key] on an object literal: own property, inherited one, or undefined
JsGet(obj, key) ==
    IF key \in DOMAIN obj THEN obj[key]
    ELSE IF key \in ProtoKeys THEN ProtoValue
    ELSE NoAttr

IsString(v) == v # ProtoValue

\* mediaType.includes('html') || href.endsWith('.html') || href.endsWith('.xhtml')
HtmlLike(mediaType, href) ==
    \/ Includes(mediaType, Html)
    \/ EndsWith(href, DotHtml)
    \/ EndsWith(href, DotXhtml)

\* mutant: a body is taken to be there always
HasBodyAlways(contentFile) == TRUE

\* parseFromString(text, 'text/html').getElementsByTagName('body')[0]: the
\* HTML parser supplies a body unless the document is a frameset
HasBody(contentFile) == contentFile.kind # "html" \/ contentFile.root # "frameset"
BodyNodes(contentFile) == IF contentFile.kind = "html" THEN contentFile.nodes ELSE << >>

\* the Turndown rules configured for one node
TurndownNode(node) ==
    CASE node.tag = "h1" -> << "# ", node.text >>
      [] node.tag = "hr" -> << "---" >>
      [] node.tag = "li" -> << "- ", node.text >>
      [] node.tag = "img" -> << >>
      [] node.tag = "a" -> << node.text >>
      [] OTHER -> << node.text >>

\* turndownService.turndown(bodyHtml): the converted nodes, blank-line separated
RECURSIVE Turndown(_)
Turndown(nodes) ==
    IF Len(nodes) = 0 THEN << >>
    ELSE LET before == Turndown(DropLast(nodes))
             this == TurndownNode(nodes[Len(nodes)])
         IN  IF this = << >> THEN before
             ELSE IF before = << >> THEN this
             ELSE before \o << "\n\n" >> \o this

\* the header: `# ${title}\n\n`, `By: ${creator}\n\n`, `---\n\n`
Header(title, creator) ==
    << << "# ", title, "\n\n" >>, << "By: ", creator, "\n\n" >>, << "---\n\n" >> >>

\* mutant: the section is put in front of the sections already there
AppendSectionFirst(markdownContent, markdown) ==
    SubSeq(markdownContent, 1, Len(Header("", "")))
        \o << markdown \o << "\n\n" >> >>
        \o SubSeq(markdownContent, Len(Header("", "")) + 1, Len(markdownContent))

\* mutant: markdownContent kept at module level, where every conversion
\* appends to the one buffer (here: the longest one written so far)
AppendSectionShared(markdownContent, markdown) ==
    LET q == CHOOSE q \in Reqs :
                 \A o \in Reqs :
                     Len(conv[q].markdownContent) >= Len(conv[o].markdownContent)
    IN  Append(conv[q].markdownContent, markdown \o << "\n\n" >>)

\* markdownContent += `${markdown}\n\n`
AppendSection(markdownContent, markdown) ==
    Append(markdownContent, markdown \o << "\n\n" >>)

(***************************************************************************)
(* Errors.                                                                 *)
(***************************************************************************)
ErrEpubjs == "epubjs: book failed to open"
ErrZip == "JSZip: not a zip file"
ErrContainer == "Invalid EPUB: container.xml not found"
ErrRootfile == "Invalid EPUB: rootfile path not found"
ErrOpf == "Invalid EPUB: OPF file not found"
ErrNoElement == "TypeError: cannot read properties of undefined (reading 'getElementsByTagName')"
ErrNotAFunction == "TypeError: includes is not a function"
ErrLocations == "epubjs: locations.generate failed"

\* a throw inside parseEpub: control passes to clientAction's catch block
Throw(r, message) ==
    /\ pc' = [pc EXCEPT ![r] = "catch"]
    /\ parse' = [parse EXCEPT ![r].error = message]

Logged(r, name, index) == log' = [log EXCEPT ![r] = Append(@, Stage(name, index))]

(***************************************************************************)
(* parseEpub, up to the call of convertEpubToMarkdown.                     *)
(***************************************************************************)
\* what epub.js reports as metadata: the first title and the first creator
\* of the package document it finds
EpubjsMetadata(archive) ==
    LET path == RootfilePath(ContainerXml(ReadEntry(archive, ContainerPath)))
        pkg == PackageXml(ReadEntry(archive, path))
    IN  [title |-> FirstTextOr(pkg.titles, ""), creator |-> FirstTextOr(pkg.creators, "")]

\* books.new.ts line 10 and lines 14-26: parseEpub is called; the book is
\* opened by epub.js, which resolves or rejects
OpenBook(r) ==
    /\ pc[r] = "openBook"
    /\ \/ /\ pc' = [pc EXCEPT ![r] = "loadZip"]
          /\ parse' = [parse EXCEPT
                  ![r].metadata = EpubjsMetadata(arch[r]),
                  ![r].calls = @ + 1]
          /\ Logged(r, "open", 0)
       \/ /\ pc' = [pc EXCEPT ![r] = "catch"]
          /\ parse' = [parse EXCEPT ![r].error = ErrEpubjs, ![r].calls = @ + 1]
          /\ UNCHANGED log
    /\ UNCHANGED << arch, conv, books, response, chatVars, dbVars, uiVars >>

(***************************************************************************)
(* convertEpubToMarkdown.                                                  *)
(***************************************************************************)
\* lines 67-68: zip.loadAsync(fileBuffer)
LoadZip(r) ==
    /\ pc[r] = "loadZip"
    /\ IF arch[r].zip
       THEN /\ pc' = [pc EXCEPT ![r] = "resolveContainer"]
            /\ Logged(r, "archive", 0)
            /\ UNCHANGED parse
       ELSE /\ Throw(r, ErrZip)
            /\ UNCHANGED log
    /\ UNCHANGED << arch, conv, books, response, chatVars, dbVars, uiVars >>

\* lines 71-91: container.xml is read and the package path taken from it
ResolveContainer(r) ==
    /\ pc[r] = "resolveContainer"
    /\ LET containerXml == ReadEntry(arch[r], ContainerPath)
           rootfilePath == RootfilePath(ContainerXml(containerXml))
       IN  IF Falsy(containerXml)
           THEN Throw(r, ErrContainer) /\ UNCHANGED << conv, log >>
           ELSE IF rootfilePath = NoAttr
           THEN Throw(r, ErrRootfile) /\ UNCHANGED << conv, log >>
           ELSE /\ conv' = [conv EXCEPT
                       ![r].rootfilePath = rootfilePath,
                       ![r].opfDirWithTrailingSlash = WithTrailingSlash(OpfDir(rootfilePath))]
                /\ pc' = [pc EXCEPT ![r] = "readOpf"]
                /\ Logged(r, "container", 0)
                /\ UNCHANGED parse
    /\ UNCHANGED << arch, books, response, chatVars, dbVars, uiVars >>

\* lines 94-97: the package document is read
ReadOpf(r) ==
    /\ pc[r] = "readOpf"
    /\ IF Falsy(ReadEntry(arch[r], conv[r].rootfilePath))
       THEN Throw(r, ErrOpf) /\ UNCHANGED log
       ELSE /\ pc' = [pc EXCEPT ![r] = "parsePackage"]
            /\ Logged(r, "opf", 0)
            /\ UNCHANGED parse
    /\ UNCHANGED << arch, conv, books, response, chatVars, dbVars, uiVars >>

\* lines 99-152: metadata, spine, manifest maps and the header
ParsePackage(r) ==
    /\ pc[r] = "parsePackage"
    /\ LET opfDoc == PackageXml(ReadEntry(arch[r], conv[r].rootfilePath))
           maps == ManifestMaps(opfDoc.manifest.children)
           title == FirstTextOr(opfDoc.titles, "Untitled")
           creator == FirstTextOr(opfDoc.creators, "Unknown Author")
       IN  IF ~opfDoc.spine.present \/ ~opfDoc.manifest.present
           THEN Throw(r, ErrNoElement) /\ UNCHANGED << conv, log >>
           ELSE /\ conv' = [conv EXCEPT
                       ![r].title = title,
                       ![r].creator = creator,
                       ![r].itemrefs = opfDoc.spine.children,
                       ![r].idToHref = maps[1],
                       ![r].idToMediaType = maps[2],
                       ![r].markdownContent = Header(title, creator),
                       ![r].i = 0]
                /\ pc' = [pc EXCEPT ![r] = "spine"]
                /\ Logged(r, "package", 0)
                /\ UNCHANGED parse
    /\ UNCHANGED << arch, books, response, chatVars, dbVars, uiVars >>

\* i++
NextIndex(i) == i + 1

\* lines 155-193, one iteration of the loop over the spine
SpineItem(r) ==
    /\ pc[r] = "spine"
    /\ conv[r].i < Len(conv[r].itemrefs)
    /\ LET i == conv[r].i
           idref == conv[r].itemrefs[i + 1]
           href == JsGet(conv[r].idToHref, idref)
           mediaType == JsGet(conv[r].idToMediaType, idref)
           filePath == conv[r].opfDirWithTrailingSlash \o href
           contentFile == ReadEntry(arch[r], filePath)
       IN  IF idref = NoId \/ href = NoAttr
           THEN \* skipped: no idref, or no manifest entry
                /\ conv' = [conv EXCEPT ![r].i = NextIndex(i)]
                /\ UNCHANGED << pc, parse, log >>
           ELSE IF ~IsString(mediaType)
                   \/ (~Includes(mediaType, Html) /\ ~IsString(href))
           THEN Throw(r, ErrNotAFunction) /\ UNCHANGED << conv, log >>
           ELSE IF ~HtmlLike(mediaType, href)
           THEN \* skipped: not HTML/XHTML content
                /\ conv' = [conv EXCEPT ![r].i = NextIndex(i)]
                /\ UNCHANGED << pc, parse, log >>
           ELSE IF Falsy(contentFile) \/ ~HasBody(contentFile)
           THEN \* loaded, nothing to append
                /\ conv' = [conv EXCEPT ![r].filePath = filePath, ![r].i = NextIndex(i)]
                /\ Logged(r, "load", i)
                /\ UNCHANGED << pc, parse >>
           ELSE /\ conv' = [conv EXCEPT
                       ![r].markdownContent =
                           AppendSection(@, Turndown(BodyNodes(contentFile))),
                       ![r].filePath = filePath,
                       ![r].i = NextIndex(i)]
                /\ log' = [log EXCEPT ![r] = @ \o << Stage("load", i), Stage("section", i) >>]
                /\ UNCHANGED << pc, parse >>
    /\ UNCHANGED << arch, books, response, chatVars, dbVars, uiVars >>

\* line 195 and line 45: the markdown is returned to parseEpub
ReturnMarkdown(r) ==
    /\ pc[r] = "spine"
    /\ conv[r].i >= Len(conv[r].itemrefs)
    /\ conv' = [conv EXCEPT ![r].returned = TRUE]
    /\ parse' = [parse EXCEPT ![r].markdown = conv[r].markdownContent]
    /\ pc' = [pc EXCEPT ![r] = "locations"]
    /\ Logged(r, "markdown", 0)
    /\ UNCHANGED << arch, books, response, chatVars, dbVars, uiVars >>

(***************************************************************************)
(* parseEpub after the markdown, and clientAction.                         *)
(***************************************************************************)
\* mutant: the conversion is started and not awaited
MarkdownNotAwaited(r) == pc[r] \in { "locations", "spine" }

\* line 45: `await convertEpubToMarkdown(...)`: line 46 runs once it returned
MarkdownAwaited(r) == pc[r] = "locations"

\* line 46: book.locations.generate(1500), by epub.js
GenerateLocations(r) ==
    /\ MarkdownAwaited(r)
    /\ \/ /\ parse' = [parse EXCEPT ![r].locations = "locations"]
          /\ pc' = [pc EXCEPT ![r] = "newBook"]
          /\ Logged(r, "locations", 0)
       \/ /\ Throw(r, ErrLocations)
          /\ UNCHANGED log
    /\ UNCHANGED << arch, conv, books, response, chatVars, dbVars, uiVars >>

\* title = metadata.title || 'Unknown Title'
BookTitle(metadata) == IF metadata.title = "" THEN "Unknown Title" ELSE metadata.title

\* authors: [] without a creator, else the creator(s)
BookAuthors(metadata) == IF metadata.creator = "" THEN << >> ELSE << metadata.creator >>

\* lines 49-62: the Book record; nanoid() is a fresh id, here the request's
NewBook(r) ==
    /\ pc[r] = "newBook"
    /\ parse' = [parse EXCEPT ![r].book =
            [id |-> r,
             title |-> BookTitle(parse[r].metadata),
             authors |-> BookAuthors(parse[r].metadata),
             markdown |-> parse[r].markdown,
             locations |-> parse[r].locations,
             createdAt |-> clock,
             updatedAt |-> clock,
             location |-> NoLocation]]
    /\ pc' = [pc EXCEPT ![r] = "addBook"]
    /\ UNCHANGED << arch, conv, books, response, log, chatVars, dbVars, uiVars >>

\* mutant: every record is stored under the one key
DbPutOne(store, record) == (1 :> record)

\* db.put('books', book)
DbPut(store, record) == JsPut(store, record.id, record)

\* books.new.ts line 12: addBook(book)
AddBook(r) ==
    /\ pc[r] = "addBook"
    /\ books' = DbPut(books, parse[r].book)
    /\ pc' = [pc EXCEPT ![r] = "redirect"]
    /\ UNCHANGED << arch, conv, parse, response, log, chatVars, dbVars, uiVars >>

\* mutant: the catch block calls parseEpub again
RetryAfterCatch == "openBook"

\* books.new.ts lines 14-17: after the catch block comes the redirect
AfterCatch == "redirect"

\* books.new.ts lines 14-16: the error is logged and dropped
CatchError(r) ==
    /\ pc[r] = "catch"
    /\ pc' = [pc EXCEPT ![r] = AfterCatch]
    /\ UNCHANGED << arch, conv, parse, books, response, log, chatVars, dbVars, uiVars >>

\* books.new.ts line 17: redirect(href("/"))
Redirect(r) ==
    /\ pc[r] = "redirect"
    /\ response' = [response EXCEPT ![r] = "redirect:/"]
    /\ pc' = [pc EXCEPT ![r] = "done"]
    /\ UNCHANGED << arch, conv, parse, books, log, chatVars, dbVars, uiVars >>

(***************************************************************************)
(* The chat page's clientLoader (chats.$chatId).                           *)
(***************************************************************************)
Placeholder == "Current page content not available"
PageText == "the text of the current page"

LoaderInit ==
    [pc |-> "off", chatId |-> "", chat |-> [id |-> ""], book |-> NoBook,
     cfiRange |-> << >>, range |-> "", content |-> "", result |-> [kind |-> "none"]]

\* the loader ends: it returns a value, or throws one
LoaderEnds(result) == loader' = [loader EXCEPT !.pc = "done", !.result = result]

\* lines 22-25: getSettings()
LoadSettings ==
    /\ loader.pc = "settings"
    /\ IF settings = NoSettings
       THEN LoaderEnds([kind |-> "redirect", to |-> "/settings"])
       ELSE loader' = [loader EXCEPT !.pc = "chat"]
    /\ UNCHANGED << uploadVars, books, settings, chats, dbVars, uiVars >>

\* lines 27-31: getChat(chatId)
LoadChat ==
    /\ loader.pc = "chat"
    /\ IF loader.chatId \notin DOMAIN chats
       THEN LoaderEnds([kind |-> "thrown", what |-> "Response 404: Chat not found"])
       ELSE loader' = [loader EXCEPT !.pc = "book", !.chat = chats[loader.chatId]]
    /\ UNCHANGED << uploadVars, books, settings, chats, dbVars, uiVars >>

\* lines 33-36: getBook(chat.bookId), which throws when there is no such book
LoadBook ==
    /\ loader.pc = "book"
    /\ IF loader.chat.bookId \notin DOMAIN books
       THEN LoaderEnds([kind |-> "thrown", what |-> "Error: Book not found"])
       ELSE loader' = [loader EXCEPT !.pc = "epub", !.book = books[loader.chat.bookId]]
    /\ UNCHANGED << uploadVars, books, settings, chats, dbVars, uiVars >>

\* s.replace(/!.*/, ""): what precedes the first '!'
BeforeFirstBang(s) ==
    IF Positions(s, "!") = {} THEN s
    ELSE SubSeq(s, 1, SetMin(Positions(s, "!")) - 1)

\* s.replace(/.*!/, ""): what follows the last '!'
AfterLastBang(s) ==
    IF Positions(s, "!") = {} THEN s
    ELSE SubSeq(s, SetMax(Positions(s, "!")) + 1, Len(s))

\* s.replace(/\)$/, ""): without a closing ')'
StripParen(s) ==
    IF Len(s) > 0 /\ s[Len(s)] = ")" THEN SubSeq(s, 1, Len(s) - 1) ELSE s

\* lines 45-48: `${cfiBase}!,${cfiStart},${cfiEnd})`
CfiRange(location) ==
    BeforeFirstBang(location.start) \o << "!", "," >>
        \o StripParen(AfterLastBang(location.start)) \o << "," >>
        \o StripParen(AfterLastBang(location.end)) \o << ")" >>

\* what epub.getRange(cfiRange) can do: resolve to a range, resolve to no
\* range, or throw
RangeOutcomes == { "range", "null", "throws" }

\* mutant: a missing range is not noticed (range?.toString() ?? "")
RangeContentUnchecked(outcome) ==
    IF outcome = "range" THEN PageText
    ELSE IF outcome = "null" THEN "" ELSE Placeholder

\* lines 50-56: range.toString() inside try, the placeholder in catch
RangeContent(outcome) == IF outcome = "range" THEN PageText ELSE Placeholder

\* lines 39-41: the book is opened by epub.js, which resolves or rejects
OpenEpub ==
    /\ loader.pc = "epub"
    /\ \/ loader' = [loader EXCEPT !.pc = "range"]
       \/ LoaderEnds([kind |-> "thrown", what |-> ErrEpubjs])
    /\ UNCHANGED << uploadVars, books, settings, chats, dbVars, uiVars >>

\* lines 43-57: the page content, when a location is stored
ResolveRange ==
    /\ loader.pc = "range"
    /\ IF loader.book.location.stored
       THEN \E outcome \in RangeOutcomes :
                loader' = [loader EXCEPT
                    !.pc = "return",
                    !.cfiRange = CfiRange(loader.book.location),
                    !.range = outcome,
                    !.content = RangeContent(outcome)]
       ELSE loader' = [loader EXCEPT !.pc = "return"]
    /\ UNCHANGED << uploadVars, books, settings, chats, dbVars, uiVars >>

\* line 59: return { book, settings, content, chat }
ReturnLoader ==
    /\ loader.pc = "return"
    /\ LoaderEnds([kind |-> "data", book |-> loader.book, settings |-> settings,
                   content |-> loader.content, chat |-> loader.chat])
    /\ UNCHANGED << uploadVars, books, settings, chats, dbVars, uiVars >>

(***************************************************************************)
(* The 'books' object store (db.ts) and its callers.                       *)
(***************************************************************************)
BookIds == { 1, 2, 3 }      \* ids as nanoid() makes them

\* a reading position the book page saves
SomeLocation == [stored |-> TRUE, start |-> << "d", "!", "1" >>,
                 end |-> << "d", "!", "2" >>, percentage |-> 0]

\* the Book parseEpub builds (epub.ts lines 49-60) at time now
FreshBook(id, now) ==
    [id |-> id, title |-> "T1", authors |-> << "Ann" >>,
     markdown |-> Header("T1", "Ann"), locations |-> "locations",
     createdAt |-> now, updatedAt |-> now, location |-> NoLocation]

\* the records of the index 'by-updated-at' are ordered by updatedAt and,
\* among equal updatedAt, by primary key
IndexBefore(a, b) ==
    \/ a.updatedAt < b.updatedAt
    \/ (a.updatedAt = b.updatedAt /\ a.id < b.id)

\* mutant: the cursor is opened in direction 'next'
RECURSIVE CursorNext(_)
CursorNext(records) ==
    IF records = {} THEN << >>
    ELSE LET first == CHOOSE b \in records :
                          \A o \in records : o = b \/ IndexBefore(b, o)
         IN  << first >> \o CursorNext(records \ { first })

\* index.openCursor(null, 'prev'), then cursor.continue() to the end
RECURSIVE CursorPrev(_)
CursorPrev(records) ==
    IF records = {} THEN << >>
    ELSE LET last == CHOOSE b \in records :
                         \A o \in records : o = b \/ IndexBefore(o, b)
         IN  << last >> \o CursorPrev(records \ { last })

\* getAllBooks(): every record of the index, through the cursor
GetAllBooks(store) == CursorPrev({ store[id] : id \in DOMAIN store })

\* mutant: the object store is cleared
DbClear(store, id) == << >>

\* db.delete('books', id)
DbDelete(store, id) == [k \in DOMAIN store \ { id } |-> store[k]]

\* time passes
Tick ==
    /\ clock < MaxClock
    /\ clock' = clock + 1
    /\ UNCHANGED << uploadVars, books, chatVars, lastOp, uiVars >>

\* addBook(book), with the Book of an upload that began at time now
DbAddBook ==
    /\ \E id \in BookIds, now \in 0..clock :
           /\ id \notin DOMAIN books
           /\ books' = DbPut(books, FreshBook(id, now))
           /\ lastOp' = [op |-> "addBook", id |-> id]
    /\ UNCHANGED << uploadVars, chatVars, clock, uiVars >>

\* updateBook(book), as saveLocation calls it (_index.tsx lines 275-281):
\* with the copy of the book the page was loaded with, which may since
\* have been deleted from the store
DbUpdateBook ==
    /\ \E id \in BookIds :
           LET copy == IF id \in DOMAIN books THEN books[id] ELSE FreshBook(id, 0)
               book == [copy EXCEPT !.location = SomeLocation, !.updatedAt = clock]
           IN  /\ books' = DbPut(books, book)
               /\ lastOp' = [op |-> "updateBook", id |-> id, time |-> clock]
    /\ UNCHANGED << uploadVars, chatVars, clock, uiVars >>

\* deleteBook(id) (_index.tsx lines 186-189)
DbDeleteBook ==
    /\ \E id \in BookIds :
           /\ books' = DbDelete(books, id)
           /\ lastOp' = [op |-> "deleteBook", id |-> id]
    /\ UNCHANGED << uploadVars, chatVars, clock, uiVars >>

\* getAllBooks(), as the library page's loader calls it
DbGetAllBooks ==
    /\ lastOp' = [op |-> "getAllBooks", result |-> GetAllBooks(books)]
    /\ UNCHANGED << uploadVars, books, chatVars, clock, uiVars >>

(***************************************************************************)
(* The chats of a book: getChatsByBookId (db.ts) and the loaders of the    *)
(* routes books/:bookId/chats and books/:bookId/chats/new.                 *)
(***************************************************************************)
ChatOrder == << "c1", "c2", "c3" >>      \* chat ids, in key order
ChatIds == { ChatOrder[k] : k \in 1..Len(ChatOrder) }

\* titles of chats are sequences of pieces of text
NewTitle == << "New conversation" >>

\* index.openCursor(bookId) on 'by-book-id': the chats of the book, in the
\* order of their keys
ChatsOfBook(store, bookId) ==
    LET mine(id) == id \in DOMAIN store /\ store[id].bookId = bookId
        keys == SelectSeq(ChatOrder, mine)
    IN  [k \in 1..Len(keys) |-> store[keys[k]]]

\* mutant: the chats are returned as the cursor gave them
NotSorted(cs) == cs

\* cs.sort((a, b) => b.updatedAt.getTime() - a.updatedAt.getTime()): the
\* latest first, chats of equal time in the order they had
RECURSIVE SortByUpdatedAt(_)
SortByUpdatedAt(cs) ==
    IF Len(cs) = 0 THEN << >>
    ELSE LET latest == SetMax({ cs[k].updatedAt : k \in 1..Len(cs) })
             at == SetMin({ k \in 1..Len(cs) : cs[k].updatedAt = latest })
         IN  << cs[at] >>
                 \o SortByUpdatedAt(SubSeq(cs, 1, at - 1) \o SubSeq(cs, at + 1, Len(cs)))

\* getChatsByBookId(bookId)
GetChatsByBookId(store, bookId) == SortByUpdatedAt(ChatsOfBook(store, bookId))

\* href("/chats/:chatId", { chatId }) and href("/books/:bookId/chats/new", { bookId })
ChatPath(chatId) == << "/chats/", chatId >>
NewChatPath(bookId) == << "/books/", bookId, "/chats/new" >>

\* books.$bookId.chats.new.ts lines 9-16: the chat the route makes
NewChat(id, bookId, now) ==
    [id |-> id, bookId |-> bookId, title |-> NewTitle, messages |-> << >>,
     createdAt |-> now, updatedAt |-> now]

\* the loader of books/:bookId/chats
OpenChatsRoute ==
    /\ \E bookId \in BookIds :
           LET cs == GetChatsByBookId(chats, bookId)
           IN  nav' = [route |-> "chats", bookId |-> bookId,
                       to |-> IF Len(cs) > 0 THEN ChatPath(cs[1].id)
                              ELSE NewChatPath(bookId)]
    /\ UNCHANGED << uploadVars, books, chatVars, dbVars, page, titling, viewer >>

\* the loader of books/:bookId/chats/new; nanoid() is an id not in use
NewChatRoute ==
    /\ \E bookId \in BookIds, id \in ChatIds \ DOMAIN chats :
           /\ chats' = DbPut(chats, NewChat(id, bookId, clock))
           /\ nav' = [route |-> "new", bookId |-> bookId, to |-> ChatPath(id)]
    /\ UNCHANGED << uploadVars, books, settings, loader, dbVars, page, titling, viewer >>

(***************************************************************************)
(* generateChatTitle (ai.ts).  Contents of messages and the answers of the *)
(* model are sequences of characters.                                      *)
(***************************************************************************)
TitleCut == 30      \* firstUserMessage.slice(0, 30)
ContextMax == 5     \* slice(0, Math.min(messages.length, 5))

Min(a, b) == IF a <= b THEN a ELSE b

Message(role, content) == [role |-> role, content |-> content]

\* what the API call can come to: the client cannot be made, the request
\* fails, the response has no content, or it has a text
ApiAnswers == { << >>, << " " >>, << "T" >>, << " ", "T", "\n" >> }
ApiOutcomes ==
    { [kind |-> "noclient"], [kind |-> "fails"], [kind |-> "none"] }
    \cup { [kind |-> "content", text |-> t] : t \in ApiAnswers }

WhiteSpace == { " ", "\n" }

\* String.prototype.trim
RECURSIVE Trim(_)
Trim(s) ==
    IF Len(s) = 0 THEN s
    ELSE IF s[1] \in WhiteSpace THEN Trim(Tail(s))
    ELSE IF s[Len(s)] \in WhiteSpace THEN Trim(DropLast(s))
    ELSE s

\* messages.filter(msg => msg.role !== "system").slice(0, Math.min(messages.length, 5))
RelevantMessages(messages) ==
    LET kept == SelectSeq(messages, LAMBDA msg : msg.role # "system")
    IN  SubSeq(kept, 1, Min(Len(kept), Min(Len(messages), ContextMax)))

\* mutant: the dots are appended to every title
CutTitleWithDots(content) ==
    SubSeq(content, 1, Min(TitleCut, Len(content))) \o << "..." >>

\* firstUserMessage.slice(0, 30) + (firstUserMessage.length > 30 ? "..." : "")
CutTitle(content) ==
    SubSeq(content, 1, Min(TitleCut, Len(content)))
        \o (IF Len(content) > TitleCut THEN << "..." >> ELSE << >>)

\* the catch block, lines 52-62
FallbackTitle(messages) ==
    LET users == SelectSeq(messages, LAMBDA msg : msg.role = "user")
    IN  IF Len(users) = 0 \/ users[1].content = << >> THEN NewTitle
        ELSE CutTitle(users[1].content)

\* generateChatTitle(messages, settings), for an outcome of the API call
GenerateChatTitle(messages, api) ==
    IF api.kind = "noclient" THEN FallbackTitle(messages)
    ELSE IF Len(RelevantMessages(messages)) = 0 THEN NewTitle
    ELSE IF api.kind = "fails" THEN FallbackTitle(messages)
    ELSE LET title == IF api.kind = "content" THEN Trim(api.text) ELSE << >>
         IN  IF title = << >> THEN NewTitle ELSE title

\* one call of generateChatTitle
CallGenerateChatTitle ==
    /\ titling.pc = "call"
    /\ titling' = [titling EXCEPT
           !.pc = "returned",
           !.result = GenerateChatTitle(titling.messages, titling.api)]
    /\ UNCHANGED << uploadVars, books, chatVars, dbVars, nav, page, viewer >>

(***************************************************************************)
(* The chat page component (chats.$chatId): sendMessage and saveMessages.  *)
(***************************************************************************)
UserInputs == { << "h", "i" >>, << "w", "h", "y" >> }
Reply == << "o", "k" >>

\* the replies of the chat API: a failure, a response without content, a
\* response with empty content, a reply
ChatOutcomes ==
    { [kind |-> "fails"], [kind |-> "none"],
      [kind |-> "content", text |-> << >>], [kind |-> "content", text |-> Reply] }

\* response.choices[0]?.message?.content
AssistantMessage(api) == IF api.kind = "content" THEN api.text ELSE << >>

\* mutant: every response is taken for a reply
ReplyAlways(assistantMessage) == TRUE

\* if (assistantMessage)
HasReply(assistantMessage) == assistantMessage # << >>

SendIdle == [pc |-> "idle", newMessages |-> << >>]

\* the component before it is mounted; titleLog, sends and failed are the
\* history of the chat page
PageInit ==
    [mounted |-> FALSE, initialChat |-> [id |-> ""], messages |-> << >>,
     loading |-> FALSE, error |-> FALSE, send |-> SendIdle,
     titleLog |-> << >>, sends |-> 0, failed |-> [is |-> FALSE]]

\* the title of a chat that has no real title yet
Untitled(title) == title = NewTitle \/ title = << >>

\* lines 62-68: the component is mounted with the loader's chat
MountPage ==
    /\ ~page.mounted
    /\ \E id \in DOMAIN chats :
           page' = [page EXCEPT
               !.mounted = TRUE,
               !.initialChat = chats[id],
               !.messages = chats[id].messages,
               !.loading = FALSE,
               !.error = FALSE,
               !.send = SendIdle]
    /\ UNCHANGED << uploadVars, books, chatVars, dbVars, nav, titling, viewer >>

\* the user leaves the page
LeavePage ==
    /\ page.mounted
    /\ page.send.pc = "idle"
    /\ page' = [page EXCEPT !.mounted = FALSE]
    /\ UNCHANGED << uploadVars, books, chatVars, dbVars, nav, titling, viewer >>

\* lines 104-114: sendMessage(input), up to the request
SendMessage ==
    /\ page.mounted
    /\ ~page.loading
    /\ page.sends < MaxSends
    /\ \E input \in UserInputs :
           LET newMessages == Append(page.messages, Message("user", input))
           IN  page' = [page EXCEPT
                   !.messages = newMessages,
                   !.loading = TRUE,
                   !.error = FALSE,
                   !.send = [pc |-> "request", newMessages |-> newMessages],
                   !.sends = @ + 1,
                   !.failed = [is |-> FALSE]]
    /\ UNCHANGED << uploadVars, books, chatVars, dbVars, nav, titling, viewer >>

\* lines 76-98: the chat saveMessages(newMessages) stores, for an outcome
\* of the title call
UpdatedChat(initialChat, newMessages, api, now) ==
    [initialChat EXCEPT
        !.messages = newMessages,
        !.updatedAt = now,
        !.title = IF Len(newMessages) >= 2 /\ Untitled(initialChat.title)
                  THEN GenerateChatTitle(newMessages, api)
                  ELSE @]

\* lines 143-181: the response of the API, the save and the finally block
ReceiveReply ==
    /\ page.send.pc = "request"
    /\ \E api \in ChatOutcomes, titleApi \in ApiOutcomes :
           LET assistantMessage == AssistantMessage(api)
               updatedMessages ==
                   Append(page.send.newMessages, Message("assistant", assistantMessage))
               titled == Len(updatedMessages) >= 2 /\ Untitled(page.initialChat.title)
           IN  IF api.kind # "fails" /\ HasReply(assistantMessage)
               THEN /\ chats' = DbPut(chats,
                            UpdatedChat(page.initialChat, updatedMessages, titleApi, clock))
                    /\ page' = [page EXCEPT
                           !.messages = updatedMessages,
                           !.loading = FALSE,
                           !.send = SendIdle,
                           !.titleLog =
                               IF titled
                               THEN Append(@, [count |-> Len(updatedMessages),
                                               stored |-> chats[page.initialChat.id].title])
                               ELSE @]
               ELSE /\ page' = [page EXCEPT
                           !.error = TRUE,
                           !.loading = FALSE,
                           !.send = SendIdle,
                           !.failed = [is |-> TRUE, before |-> chats]]
                    /\ UNCHANGED chats
    /\ UNCHANGED << uploadVars, books, settings, loader, dbVars, nav, titling, viewer >>

(***************************************************************************)
(* Specification of one upload.                                            *)
(***************************************************************************)
NoChat ==
    /\ settings = NoSettings
    /\ chats = << >>
    /\ loader = LoaderInit

\* no call on the 'books' store yet
NoOp == [op |-> "none"]

\* no route of the chats was opened, no page is mounted
NoNav == [route |-> "none"]
NoPage == [mounted |-> FALSE]
NoTitling == [pc |-> "off"]
NoViewer == [mounted |-> FALSE]

NoUi ==
    /\ nav = NoNav
    /\ page = NoPage
    /\ titling = NoTitling
    /\ viewer = NoViewer

NoLibrary ==
    /\ clock = 0
    /\ lastOp = NoOp
    /\ NoUi

Init ==
    /\ arch \in { [r \in Reqs |-> a] : a \in Archives }
    /\ pc = [r \in Reqs |-> IF r = 1 THEN "openBook" ELSE "off"]
    /\ conv = [r \in Reqs |-> ConvInit]
    /\ parse = [r \in Reqs |-> ParseInit]
    /\ books = << >>
    /\ response = [r \in Reqs |-> ""]
    /\ log = [r \in Reqs |-> << >>]
    /\ NoChat
    /\ NoLibrary

Next ==
    \E r \in Reqs :
        \/ OpenBook(r)
        \/ LoadZip(r)
        \/ ResolveContainer(r)
        \/ ReadOpf(r)
        \/ ParsePackage(r)
        \/ SpineItem(r)
        \/ ReturnMarkdown(r)
        \/ GenerateLocations(r)
        \/ NewBook(r)
        \/ AddBook(r)
        \/ CatchError(r)
        \/ Redirect(r)

Spec == Init /\ [][Next]_vars

(***************************************************************************)
(* Specification of two uploads running at the same time.                  *)
(***************************************************************************)
PairPackages ==
    { [kind |-> "package", titles |-> << "T1", "T2" >>, creators |-> << "Ann", "Bob" >>,
       spine |-> Element(refs), manifest |-> Element(<< ItemA, ItemCss, ItemB >>)] :
         refs \in { << "a", "b" >>, << "b", "a" >>, << "a", NoId, "constructor" >> } }
    \cup { [kind |-> "package", titles |-> << "T2" >>, creators |-> << >>,
            spine |-> Element(<< "b" >>), manifest |-> Element(<< ItemA, ItemB >>)] }

PairArchives ==
    { NotAZip,
      [zip |-> TRUE,
       entries |-> EntriesOf(Undefined, DirOpf, SamplePackage, [p |-> DocA, b |-> DocB])] }
    \cup { [zip |-> TRUE,
            entries |-> EntriesOf(ContainerDoc(<< DirOpf >>), DirOpf, pkg, files)] :
              pkg \in PairPackages,
              files \in { [p |-> DocA, b |-> DocB], [p |-> DocFrameset, b |-> DocB] } }

InitPair ==
    /\ arch \in [Reqs -> PairArchives]
    /\ pc = [r \in Reqs |-> "openBook"]
    /\ conv = [r \in Reqs |-> ConvInit]
    /\ parse = [r \in Reqs |-> ParseInit]
    /\ books = << >>
    /\ response = [r \in Reqs |-> ""]
    /\ log = [r \in Reqs |-> << >>]
    /\ NoChat
    /\ NoLibrary

SpecPair == InitPair /\ [][Next]_vars

(***************************************************************************)
(* Specification of the chat page's loader, over every stored state.       *)
(***************************************************************************)
\* CFI addresses as epub.js writes them, "epubcfi(/6/4!/4/2:0)": a document
\* part, then steps that each begin with '!', then the closing ')'
CfiDocs == { << "d" >>, << "e" >> }
CfiOffsets == { "1", "2" }
RECURSIVE CfiSteps(_)
CfiSteps(offsets) ==
    IF Len(offsets) = 0 THEN << >>
    ELSE << "!", offsets[1] >> \o CfiSteps(Tail(offsets))
CfiAddresses ==
    { doc \o CfiSteps(offsets) \o close :
        doc \in CfiDocs, offsets \in SeqsUpTo(CfiOffsets, MaxSteps),
        close \in { << >>, << ")" >> } }

SomeSettings == [id |-> "llm-settings"]
SomeChat ==
    [id |-> "c1", bookId |-> 1, title |-> << "New conversation" >>, messages |-> << >>,
     createdAt |-> 0, updatedAt |-> 0]
SomeBook(location) ==
    [id |-> 1, title |-> "T1", authors |-> << "Ann" >>,
     markdown |-> Header("T1", "Ann"), locations |-> "locations",
     createdAt |-> 0, updatedAt |-> 0, location |-> location]

Locations ==
    { NoLocation }
    \cup { [stored |-> TRUE, start |-> s, end |-> e, percentage |-> 0] :
             s \in CfiAddresses, e \in CfiAddresses }

InitChat ==
    /\ arch = [r \in Reqs |-> NotAZip]
    /\ pc = [r \in Reqs |-> "off"]
    /\ conv = [r \in Reqs |-> ConvInit]
    /\ parse = [r \in Reqs |-> ParseInit]
    /\ response = [r \in Reqs |-> ""]
    /\ log = [r \in Reqs |-> << >>]
    /\ settings \in { NoSettings, SomeSettings }
    /\ chats \in { << >>, ("c1" :> SomeChat) }
    /\ books \in { << >> } \cup { (1 :> SomeBook(l)) : l \in Locations }
    /\ loader = [LoaderInit EXCEPT !.pc = "settings", !.chatId = "c1"]
    /\ NoLibrary

NextChat ==
    \/ LoadSettings
    \/ LoadChat
    \/ LoadBook
    \/ OpenEpub
    \/ ResolveRange
    \/ ReturnLoader

SpecChat == InitChat /\ [][NextChat]_vars

(***************************************************************************)
(* Specification of the library: calls on the 'books' store as time passes.*)
(***************************************************************************)
InitDb ==
    /\ arch = [r \in Reqs |-> NotAZip]
    /\ pc = [r \in Reqs |-> "off"]
    /\ conv = [r \in Reqs |-> ConvInit]
    /\ parse = [r \in Reqs |-> ParseInit]
    /\ response = [r \in Reqs |-> ""]
    /\ log = [r \in Reqs |-> << >>]
    /\ books = << >>
    /\ NoChat
    /\ NoLibrary

NextDb ==
    \/ Tick
    \/ DbAddBook
    \/ DbUpdateBook
    \/ DbDeleteBook
    \/ DbGetAllBooks

SpecDb == InitDb /\ [][NextDb]_vars

(***************************************************************************)
(* Specification of the chats routes, over every stored set of chats.      *)
(***************************************************************************)
\* a chat as the chat page leaves it in the store
StoredChat(id, bookId, updatedAt) ==
    [NewChat(id, bookId, 0) EXCEPT !.updatedAt = updatedAt]

\* the stores with chats under the first ids of ChatOrder
ChatStores ==
    UNION { { [id \in { ChatOrder[k] : k \in 1..n } |->
                 StoredChat(id, of[id], at[id])] :
                of \in [{ ChatOrder[k] : k \in 1..n } -> { 1, 2 }],
                at \in [{ ChatOrder[k] : k \in 1..n } -> 0..MaxClock] } :
            n \in 0..(Len(ChatOrder) - 1) }

InitRoutes ==
    /\ arch = [r \in Reqs |-> NotAZip]
    /\ pc = [r \in Reqs |-> "off"]
    /\ conv = [r \in Reqs |-> ConvInit]
    /\ parse = [r \in Reqs |-> ParseInit]
    /\ response = [r \in Reqs |-> ""]
    /\ log = [r \in Reqs |-> << >>]
    /\ books = << >>
    /\ settings = NoSettings
    /\ loader = LoaderInit
    /\ clock \in 0..MaxClock
    /\ chats \in { store \in ChatStores :
                       \A id \in DOMAIN store : store[id].updatedAt <= clock }
    /\ lastOp = NoOp
    /\ NoUi

NextRoutes ==
    \/ Tick
    \/ OpenChatsRoute
    \/ NewChatRoute

SpecRoutes == InitRoutes /\ [][NextRoutes]_vars

(***************************************************************************)
(* Specification of generateChatTitle, over message lists and outcomes of  *)
(* the API call.                                                           *)
(***************************************************************************)
\* a text of n characters
Text(n) == [k \in 1..n |-> "x"]

TitleMessages ==
    { Message("system", Text(1)), Message("assistant", Text(1)),
      Message("user", Text(1)), Message("user", Text(TitleCut)),
      Message("user", Text(TitleCut + 1)) }

InitTitle ==
    /\ arch = [r \in Reqs |-> NotAZip]
    /\ pc = [r \in Reqs |-> "off"]
    /\ conv = [r \in Reqs |-> ConvInit]
    /\ parse = [r \in Reqs |-> ParseInit]
    /\ response = [r \in Reqs |-> ""]
    /\ log = [r \in Reqs |-> << >>]
    /\ books = << >>
    /\ NoChat
    /\ clock = 0
    /\ lastOp = NoOp
    /\ nav = NoNav
    /\ page = NoPage
    /\ viewer = NoViewer
    /\ titling \in { [pc |-> "call", messages |-> m, api |-> a, result |-> << >>] :
                         m \in SeqsUpTo(TitleMessages, MaxMessages), a \in ApiOutcomes }

NextTitle == CallGenerateChatTitle

SpecTitle == InitTitle /\ [][NextTitle]_vars

(***************************************************************************)
(* Specification of the chat page, over the chat it is opened on.          *)
(***************************************************************************)
PageChats ==
    { NewChat("c1", 1, 0),
      [NewChat("c1", 1, 0) EXCEPT !.title = << >>],
      [NewChat("c1", 1, 0) EXCEPT
          !.title = << "T" >>,
          !.messages = << Message("user", << "h", "i" >>), Message("assistant", Reply) >>] }

InitPage ==
    /\ arch = [r \in Reqs |-> NotAZip]
    /\ pc = [r \in Reqs |-> "off"]
    /\ conv = [r \in Reqs |-> ConvInit]
    /\ parse = [r \in Reqs |-> ParseInit]
    /\ response = [r \in Reqs |-> ""]
    /\ log = [r \in Reqs |-> << >>]
    /\ books = (1 :> SomeBook(NoLocation))
    /\ settings = SomeSettings
    /\ loader = LoaderInit
    /\ chats \in { ("c1" :> chat) : chat \in PageChats }
    /\ clock = 0
    /\ lastOp = NoOp
    /\ nav = NoNav
    /\ titling = NoTitling
    /\ viewer = NoViewer
    /\ page = PageInit

NextPage ==
    \/ Tick
    \/ MountPage
    \/ LeavePage
    \/ SendMessage
    \/ ReceiveReply

SpecPage == InitPage /\ [][NextPage]_vars

(***************************************************************************)
(* What the claims speak of, read off the archive itself.                  *)
(***************************************************************************)
\* the package document of an archive, found through its container.xml
ArchivePackage(archive) ==
    PackageXml(ReadEntry(archive,
        RootfilePath(ContainerXml(ReadEntry(archive, ContainerPath)))))

\* the directory the package document is in, with its trailing slash
ArchiveDir(archive) ==
    WithTrailingSlash(OpfDir(RootfilePath(ContainerXml(ReadEntry(archive, ContainerPath)))))

\* the <itemref> idrefs of the spine
SpineRefs(archive) == ArchivePackage(archive).spine.children

\* the ids that are keys of the manifest: items with an id and an href
ManifestKeys(archive) ==
    LET items == ArchivePackage(archive).manifest.children
    IN  { items[k].id : k \in { n \in 1..Len(items) :
                                  items[n].id # NoId /\ items[n].href # NoAttr } }

\* the manifest entry of a key: the last item written with that id
ManifestEntry(archive, id) ==
    LET items == ArchivePackage(archive).manifest.children
        at == { n \in 1..Len(items) : items[n].id = id /\ items[n].href # NoAttr }
    IN  items[SetMax(at)]

\* the ref points to an HTML-like manifest entry
PointsToHtml(archive, idref) ==
    /\ idref # NoId
    /\ idref \in ManifestKeys(archive)
    /\ LET entry == ManifestEntry(archive, idref)
       IN  \/ Includes(entry.mediaType, Html)
           \/ EndsWith(entry.href, DotHtml)
           \/ EndsWith(entry.href, DotXhtml)

\* the content file the ref points to
ContentOf(archive, idref) ==
    ReadEntry(archive, ArchiveDir(archive) \o ManifestEntry(archive, idref).href)

\* ... and that file is an entry of the archive
PointsToFile(archive, idref) ==
    /\ PointsToHtml(archive, idref)
    /\ ContentOf(archive, idref).kind # "undefined"

\* ... and that file is not empty and has a body element
PointsToBody(archive, idref) ==
    /\ PointsToFile(archive, idref)
    /\ ContentOf(archive, idref).kind = "html"
    /\ ContentOf(archive, idref).root # "frameset"

\* the blocks of a markdown after its three header blocks
Sections(markdown) == SubSeq(markdown, Len(Header("", "")) + 1, Len(markdown))

\* the log entries of one stage
StageEvents(r, name) == SelectSeq(log[r], LAMBDA e : e.stage = name)
Happened(r, name, index) == \E k \in 1..Len(log[r]) : log[r][k] = Stage(name, index)

\* an extraction that went through the whole spine
Rendered(r) == conv[r].returned

(***************************************************************************)
(* C1: the content sections of the returned markdown are in the order of   *)
(* the spine's itemrefs, restricted to the refs that were not skipped: the *)
(* k-th section is the conversion of the document of the k-th rendered     *)
(* ref, rendered refs are taken in increasing spine position, and two      *)
(* occurrences of the same id are both rendered or both not (no            *)
(* deduplication).                                                         *)
(***************************************************************************)
C1_SpineOrder ==
    \A r \in Reqs :
        Rendered(r) =>
            LET refs == SpineRefs(arch[r])
                secs == Sections(parse[r].markdown)
                ev == StageEvents(r, "section")
            IN  /\ Len(secs) = Len(ev)
                /\ \A k \in 1..Len(ev) :
                       secs[k] = Turndown(BodyNodes(ContentOf(arch[r], refs[ev[k].index + 1])))
                                     \o << "\n\n" >>
                /\ \A k \in 1..(Len(ev) - 1) : ev[k].index < ev[k + 1].index
                /\ \A m, n \in 1..Len(refs) :
                       refs[m] = refs[n] =>
                           (Happened(r, "section", m - 1) <=> Happened(r, "section", n - 1))

\* two different documents rendered, the later spine entry second
C1_Witness ==
    \E r \in Reqs :
        /\ Rendered(r)
        /\ SpineRefs(arch[r]) = << "b", "a" >>
        /\ Len(Sections(parse[r].markdown)) = Len(SpineRefs(arch[r]))
        /\ Sections(parse[r].markdown)[1] # Sections(parse[r].markdown)[2]

(***************************************************************************)
(* C2 (as claimed): with M the number of spine refs that point to an       *)
(* HTML-like manifest entry whose content file is an entry of the archive, *)
(* the returned markdown is the header followed by exactly M sections.     *)
(***************************************************************************)
CountRefs(archive, P(_, _)) ==
    Cardinality({ k \in 1..Len(SpineRefs(archive)) : P(archive, SpineRefs(archive)[k]) })

HasHeader(markdown) ==
    /\ Len(markdown) >= Len(Header("", ""))
    /\ markdown[1][1] = "# "
    /\ markdown[2][1] = "By: "
    /\ markdown[3] = << "---\n\n" >>

C2_SectionPerExistingFile ==
    \A r \in Reqs :
        Rendered(r) =>
            /\ HasHeader(parse[r].markdown)
            /\ Len(Sections(parse[r].markdown)) = CountRefs(arch[r], PointsToFile)

(***************************************************************************)
(* C2 (amended): with M the number of spine refs that point to an          *)
(* HTML-like manifest entry whose content file is an entry of the archive, *)
(* is not empty and has a body element, the returned markdown is the       *)
(* header followed by exactly M sections.                                  *)
(***************************************************************************)
C2_SectionPerBody ==
    \A r \in Reqs :
        Rendered(r) =>
            /\ HasHeader(parse[r].markdown)
            /\ Len(Sections(parse[r].markdown)) = CountRefs(arch[r], PointsToBody)

\* a spine of N = 2 refs, one section: the other ref's file is there but
\* renders nothing
C2_Witness ==
    \E r \in Reqs :
        /\ Rendered(r)
        /\ Len(SpineRefs(arch[r])) = 2
        /\ CountRefs(arch[r], PointsToFile) = 2
        /\ Len(Sections(parse[r].markdown)) = 1

(***************************************************************************)
(* C3: a spine ref is skipped, without error, when it has no idref, when   *)
(* its idref is not a key of the manifest, or when the entry is not        *)
(* HTML-like; every other spine ref is loaded.                             *)
(***************************************************************************)
\* the iterations of the spine loop that were entered
Attempted(r) ==
    IF parse[r].error = ErrNotAFunction THEN 0..conv[r].i ELSE 0..(conv[r].i - 1)

C3_SkipRule ==
    \A r \in Reqs :
        \A k \in Attempted(r) :
            LET idref == SpineRefs(arch[r])[k + 1]
            IN  IF PointsToHtml(arch[r], idref)
                THEN Happened(r, "load", k)
                ELSE /\ ~Happened(r, "load", k)
                     /\ ~(parse[r].error = ErrNotAFunction /\ conv[r].i = k)

(***************************************************************************)
(* C4: for an archive without a META-INF/container.xml entry the           *)
(* extraction fails with the container error and leaves nothing behind: no *)
(* markdown is returned, no Book is built, no book record is stored.       *)
(***************************************************************************)
NoContainer(archive) == archive.zip /\ ContainerPath \notin DOMAIN archive.entries

C4_NoContainerNoOutput ==
    \A r \in Reqs :
        NoContainer(arch[r]) =>
            /\ ~conv[r].returned
            /\ conv[r].markdownContent = NoMarkdown
            /\ parse[r].markdown = NoMarkdown
            /\ parse[r].book = NoBook
            /\ r \notin DOMAIN books
            /\ pc[r] \in { "catch", "redirect", "done" } => parse[r].error # NoError
            /\ (pc[r] \in { "catch", "redirect", "done" } /\ Happened(r, "archive", 0))
                   => parse[r].error = ErrContainer

C4_Witness ==
    \E r \in Reqs :
        /\ NoContainer(arch[r])
        /\ pc[r] = "done"
        /\ parse[r].error = ErrContainer
        /\ books = << >>

(***************************************************************************)
(* C5: when container.xml, the rootfile full-path and the package document *)
(* entry are all present, convertEpubToMarkdown does not fail.             *)
(***************************************************************************)
ConvErrors == { ErrContainer, ErrRootfile, ErrOpf, ErrNoElement, ErrNotAFunction }

\* the three are there, and neither file is empty
StructurePresent(archive) ==
    /\ archive.zip
    /\ ReadEntry(archive, ContainerPath).kind = "container"
    /\ RootfilePath(ContainerXml(ReadEntry(archive, ContainerPath))) # NoAttr
    /\ ReadEntry(archive,
            RootfilePath(ContainerXml(ReadEntry(archive, ContainerPath)))).kind = "package"

C5_OnlyStructuralFailures ==
    \A r \in Reqs :
        StructurePresent(arch[r]) => parse[r].error \notin ConvErrors

(***************************************************************************)
(* C8 (as claimed): the markdown begins with "# " title, then "By: " and   *)
(* the text of all dc:creator elements joined ("Unknown Author" when there *)
(* is none), then the "---" rule.                                          *)
(***************************************************************************)
\* the characters of a block: empty pieces add nothing
Flat(block) == SelectSeq(block, LAMBDA piece : piece # "")

HeaderWritten(r) == pc[r] = "spine" \/ conv[r].returned

ExpectedTitle(archive) ==
    LET titles == ArchivePackage(archive).titles
    IN  IF Len(titles) = 0 \/ titles[1] = "" THEN "Untitled" ELSE titles[1]

C8_AllCreators ==
    \A r \in Reqs :
        HeaderWritten(r) =>
            LET creators == ArchivePackage(arch[r]).creators
                md == conv[r].markdownContent
            IN  /\ Flat(md[1]) = Flat(<< "# ", ExpectedTitle(arch[r]), "\n\n" >>)
                /\ Flat(md[2]) =
                       Flat(<< "By: " >>
                            \o (IF Len(creators) = 0 THEN << "Unknown Author" >> ELSE creators)
                            \o << "\n\n" >>)
                /\ md[3] = << "---\n\n" >>

(***************************************************************************)
(* C8 (amended): the markdown begins with "# " title, then "By: " and the  *)
(* text of the first dc:creator element ("Unknown Author" when there is    *)
(* none or its text is empty), then the "---" rule, before any section.    *)
(***************************************************************************)
C8_FirstCreator ==
    \A r \in Reqs :
        HeaderWritten(r) =>
            LET creators == ArchivePackage(arch[r]).creators
                md == conv[r].markdownContent
            IN  /\ Flat(md[1]) = Flat(<< "# ", ExpectedTitle(arch[r]), "\n\n" >>)
                /\ Flat(md[2]) =
                       Flat(<< "By: ",
                               IF Len(creators) = 0 \/ creators[1] = ""
                               THEN "Unknown Author" ELSE creators[1],
                               "\n\n" >>)
                /\ md[3] = << "---\n\n" >>
                /\ Len(md) = Len(Header("", "")) + Len(StageEvents(r, "section"))

\* two creators, and a section after the header
C8_Witness ==
    \E r \in Reqs :
        /\ Rendered(r)
        /\ Len(ArchivePackage(arch[r]).creators) = 2
        /\ Len(Sections(conv[r].markdownContent)) >= 1

(***************************************************************************)
(* C10: within one extraction the stages run in order: the container       *)
(* descriptor is resolved before the package document is read, the package *)
(* document is parsed before the first spine item is loaded, spine items   *)
(* are loaded one at a time in spine order, and location generation starts *)
(* only after the markdown has been returned.                              *)
(***************************************************************************)
Rank(e) ==
    CASE e.stage = "open" -> 0
      [] e.stage = "archive" -> 1
      [] e.stage = "container" -> 2
      [] e.stage = "opf" -> 3
      [] e.stage = "package" -> 4
      [] e.stage \in { "load", "section" } -> 5
      [] e.stage = "markdown" -> 6
      [] e.stage = "locations" -> 7

C10_StagesInOrder ==
    \A r \in Reqs :
        /\ \A m, n \in 1..Len(log[r]) :
               m < n =>
                   /\ Rank(log[r][m]) <= Rank(log[r][n])
                   /\ Rank(log[r][m]) = Rank(log[r][n]) =>
                          /\ log[r][m].stage \in { "load", "section" }
                          /\ log[r][m].index <= log[r][n].index
                          /\ log[r][m].index = log[r][n].index =>
                                 (log[r][m].stage = "load" /\ log[r][n].stage = "section")
        /\ Happened(r, "locations", 0) =>
               (Happened(r, "markdown", 0) /\ conv[r].returned
                /\ conv[r].i = Len(conv[r].itemrefs))
        /\ Happened(r, "load", 0) => Happened(r, "package", 0)
        /\ Happened(r, "opf", 0) => Happened(r, "container", 0)

\* both spine items loaded, then the markdown, then the locations
C10_Witness ==
    \E r \in Reqs :
        /\ Happened(r, "locations", 0)
        /\ Happened(r, "load", 0)
        /\ Happened(r, "load", 1)

(***************************************************************************)
(* C6: when a reading position is stored and resolving the composite range *)
(* fails (the resolver throws, or gives no range), the page content is the *)
(* placeholder, nothing is thrown to the caller, and the loader returns    *)
(* {book, settings, content, chat} with that content.                      *)
(***************************************************************************)
RangeFailed == loader.book.location.stored /\ loader.range \in { "null", "throws" }

C6_PlaceholderOnFailure ==
    RangeFailed =>
        /\ loader.content = Placeholder
        /\ loader.result.kind # "thrown"
        /\ loader.pc = "done" =>
               /\ loader.result.kind = "data"
               /\ loader.result.content = Placeholder
               /\ loader.result.book = books[1]
               /\ loader.result.chat = chats["c1"]
               /\ loader.result.settings = settings

C6_Witness ==
    /\ RangeFailed
    /\ loader.range = "null"
    /\ loader.pc = "done"
    /\ loader.result.kind = "data"

(***************************************************************************)
(* C7: for a stored position whose start and end share the prefix up to    *)
(* the delimiter '!', the composite range is the shared prefix, "!,", the  *)
(* start's offset part (what follows the delimiter, without the closing    *)
(* ')'), ",", the end's offset part, ")": prefix and offsets are split at  *)
(* the same occurrence of the delimiter.                                   *)
(***************************************************************************)
PrefixAt(s, k) == SubSeq(s, 1, k - 1)
OffsetAt(s, k) == StripParen(SubSeq(s, k + 1, Len(s)))

SharePrefix(location) ==
    \E ks \in Positions(location.start, "!"), ke \in Positions(location.end, "!") :
        PrefixAt(location.start, ks) = PrefixAt(location.end, ke)

C7_SplitAtOneDelimiter ==
    (loader.range \in RangeOutcomes /\ SharePrefix(loader.book.location)) =>
        \E ks \in Positions(loader.book.location.start, "!"),
           ke \in Positions(loader.book.location.end, "!") :
            /\ PrefixAt(loader.book.location.start, ks) = PrefixAt(loader.book.location.end, ke)
            /\ loader.cfiRange =
                   PrefixAt(loader.book.location.start, ks) \o << "!", "," >>
                       \o OffsetAt(loader.book.location.start, ks) \o << "," >>
                       \o OffsetAt(loader.book.location.end, ke) \o << ")" >>

(***************************************************************************)
(* C9: two runs of convertEpubToMarkdown on the same archive bytes end the *)
(* same way, with the same markdown, however the two runs and the rest of  *)
(* their uploads interleave.                                               *)
(***************************************************************************)
ConvFinished(r) == conv[r].returned \/ parse[r].error \in ConvErrors \cup { ErrZip }

ConvOutcome(r) ==
    IF conv[r].returned THEN [returned |-> TRUE, markdown |-> parse[r].markdown, error |-> NoError]
    ELSE [returned |-> FALSE, markdown |-> NoMarkdown, error |-> parse[r].error]

C9_Deterministic ==
    \A r1, r2 \in Reqs :
        (arch[r1] = arch[r2] /\ ConvFinished(r1) /\ ConvFinished(r2)) =>
            ConvOutcome(r1) = ConvOutcome(r2)

\* the first upload is over, its book stored, when the second one's
\* rendering of the same bytes returns
C9_Witness ==
    /\ arch[1] = arch[2]
    /\ pc[1] = "done" /\ 1 \in DOMAIN books
    /\ Rendered(2)
    /\ Len(Sections(parse[2].markdown)) = 2

(***************************************************************************)
(* C11: when two uploads run at the same time, under every interleaving of *)
(* their steps, each builds and stores its own Book record, whose title,   *)
(* authors and markdown are those the archive gives when it is extracted   *)
(* alone; neither record carries anything of the other request.            *)
(***************************************************************************)
\* the sections an archive gives when it is extracted alone
RECURSIVE SoloSections(_, _)
SoloSections(archive, refs) ==
    IF Len(refs) = 0 THEN << >>
    ELSE LET before == SoloSections(archive, DropLast(refs))
             idref == refs[Len(refs)]
         IN  IF PointsToBody(archive, idref)
             THEN Append(before,
                         Turndown(BodyNodes(ContentOf(archive, idref))) \o << "\n\n" >>)
             ELSE before

SoloMarkdown(archive) ==
    LET pkg == ArchivePackage(archive)
    IN  Header(FirstTextOr(pkg.titles, "Untitled"),
               FirstTextOr(pkg.creators, "Unknown Author"))
            \o SoloSections(archive, SpineRefs(archive))

OwnRecord(book, r) ==
    /\ book.id = r
    /\ book.title = BookTitle(EpubjsMetadata(arch[r]))
    /\ book.authors = BookAuthors(EpubjsMetadata(arch[r]))
    /\ book.markdown = SoloMarkdown(arch[r])

Succeeded(r) == pc[r] \in { "redirect", "done" } /\ parse[r].error = NoError

C11_OwnRecord ==
    \A r \in Reqs :
        /\ parse[r].book # NoBook => OwnRecord(parse[r].book, r)
        /\ r \in DOMAIN books => OwnRecord(books[r], r)
        /\ Succeeded(r) => r \in DOMAIN books

\* both uploads stored a book, and the two books differ in title and text
C11_Witness ==
    /\ DOMAIN books = Reqs
    /\ books[1].title # books[2].title
    /\ books[1].markdown # books[2].markdown
    /\ Len(Sections(books[1].markdown)) = 2

(***************************************************************************)
(* C12: parseEpub is called once per upload and never again after it       *)
(* failed (an archive that cannot be opened, a missing container file      *)
(* among the failures), and the store holds a record of the upload if and  *)
(* only if parseEpub returned a Book: one record then, none otherwise.     *)
(***************************************************************************)
Failed(r) == parse[r].error # NoError

C13_FailureSurfaced ==
    \A r1, r2 \in Reqs :
        ( /\ pc[r1] = "done" /\ ~arch[r1].zip /\ Failed(r1)
          /\ pc[r2] = "done" /\ Succeeded(r2) )
            => response[r1] # response[r2]

(***************************************************************************)
(* C14: when container.xml has no rootfile element with a non-empty        *)
(* full-path, or the archive has no entry under the full-path of its       *)
(* rootfile, the extraction ends with an "Invalid EPUB" error and no       *)
(* markdown was produced; the full-path is the lookup key as written.      *)
(***************************************************************************)
InvalidEpub == { ErrContainer, ErrRootfile, ErrOpf }

Rootfiles(archive) == ContainerXml(ReadEntry(archive, ContainerPath)).rootfiles

NoFullPath(archive) ==
    \A k \in 1..Len(Rootfiles(archive)) : Rootfiles(archive)[k] = NoAttr

NoPackageEntry(archive) ==
    /\ Len(Rootfiles(archive)) > 0
    /\ Rootfiles(archive)[1] # NoAttr
    /\ Rootfiles(archive)[1] \notin DOMAIN archive.entries

\* the archive was opened and the two lookups are behind
PastLookups(r) ==
    /\ Happened(r, "archive", 0)
    /\ pc[r] \notin { "resolveContainer", "readOpf" }

C14_InvalidEpubBeforeMarkdown ==
    \A r \in Reqs :
        /\ (arch[r].zip /\ (NoFullPath(arch[r]) \/ NoPackageEntry(arch[r]))) =>
               /\ conv[r].markdownContent = NoMarkdown
               /\ parse[r].markdown = NoMarkdown
               /\ ~Happened(r, "package", 0)
               /\ PastLookups(r) =>
                      /\ pc[r] \in { "catch", "redirect", "done" }
                      /\ parse[r].error \in InvalidEpub
                      /\ NoPackageEntry(arch[r]) => parse[r].error = ErrOpf
        /\ pc[r] = "readOpf" =>
               /\ Len(Rootfiles(arch[r])) > 0
               /\ conv[r].rootfilePath = Rootfiles(arch[r])[1]

\* the rootfile names O/o, the archive has its package document at o
C14_Witness ==
    \E r \in Reqs :
        /\ NoPackageEntry(arch[r])
        /\ RootOpf \in DOMAIN arch[r].entries
        /\ pc[r] = "done"
        /\ parse[r].error = ErrOpf

(***************************************************************************)
(* C15: for an archive whose package document has a manifest without item  *)
(* elements, whatever the spine contains, the rendering does not fail and  *)
(* the markdown returned is the header alone.                              *)
(***************************************************************************)
EmptyManifest(archive) ==
    /\ StructurePresent(archive)
    /\ ArchivePackage(archive).spine.present
    /\ ArchivePackage(archive).manifest.present
    /\ Len(ArchivePackage(archive).manifest.children) = 0

C15_EmptyManifestHeaderOnly ==
    \A r \in Reqs :
        EmptyManifest(arch[r]) =>
            /\ parse[r].error \notin ConvErrors
            /\ Rendered(r) => Len(Sections(parse[r].markdown)) = 0

(***************************************************************************)
(* C16 (as claimed): the title of the header is the text of the first      *)
(* dc:title element, and "Untitled" when there is no dc:title element.     *)
(***************************************************************************)
HeaderTitle(r) == conv[r].markdownContent[1]

C16_FirstTitleText ==
    \A r \in Reqs :
        HeaderWritten(r) =>
            LET titles == ArchivePackage(arch[r]).titles
            IN  HeaderTitle(r) =
                    << "# ", IF Len(titles) = 0 THEN "Untitled" ELSE titles[1], "\n\n" >>

(***************************************************************************)
(* C16 (amended): the title of the header is the text of the first         *)
(* dc:title element, and "Untitled" when there is no dc:title element or   *)
(* the first one has no text.                                              *)
(***************************************************************************)
C16_FirstTitleOrUntitled ==
    \A r \in Reqs :
        HeaderWritten(r) =>
            LET titles == ArchivePackage(arch[r]).titles
            IN  HeaderTitle(r) =
                    << "# ",
                       IF Len(titles) = 0 \/ titles[1] = "" THEN "Untitled" ELSE titles[1],
                       "\n\n" >>

\* a first dc:title without text: the header says "Untitled"
C16_Witness ==
    \E r \in Reqs :
        /\ Rendered(r)
        /\ Len(ArchivePackage(arch[r]).titles) = 1
        /\ ArchivePackage(arch[r]).titles[1] = ""
        /\ HeaderTitle(r)[2] = "Untitled"

(***************************************************************************)
(* C17: the manifest mapping has an entry under an id exactly when the     *)
(* manifest has an item with that id and an href, and the entry stores the *)
(* href and the media-type of such an item (no media-type when the item    *)
(* has none); items without id or href give no entry.                      *)
(***************************************************************************)
\* the positions of the items entered under an id
ItemsWithId(archive, id) ==
    LET items == ArchivePackage(archive).manifest.children
    IN  { n \in 1..Len(items) : items[n].id = id /\ items[n].href # NoAttr }

\* the media-type stored under an id, NoAttr when none is
StoredMediaType(r, id) ==
    IF id \in DOMAIN conv[r].idToMediaType THEN conv[r].idToMediaType[id] ELSE NoAttr

C17_ManifestMapping ==
    \A r \in Reqs :
        HeaderWritten(r) =>
            LET items == ArchivePackage(arch[r]).manifest.children
            IN  /\ DOMAIN conv[r].idToHref =
                       { id \in IdRefs \ { NoId } : ItemsWithId(arch[r], id) # {} }
                /\ DOMAIN conv[r].idToMediaType \subseteq DOMAIN conv[r].idToHref
                /\ \A id \in DOMAIN conv[r].idToHref :
                       \E n \in ItemsWithId(arch[r], id) :
                           /\ conv[r].idToHref[id] = items[n].href
                           /\ StoredMediaType(r, id) = items[n].mediaType

(***************************************************************************)
(* C18: the archive path a content document is loaded from is the parent   *)
(* directory of the package path, "/" and the manifest href when the       *)
(* package path has a directory part, and the manifest href alone when it  *)
(* has none.                                                               *)
(***************************************************************************)
HasDirectory(path) == Positions(path, "/") # {}

\* what precedes the last '/' of a path
ParentDirectory(path) == SubSeq(path, 1, SetMax(Positions(path, "/")) - 1)

ContentPath(path, href) ==
    IF HasDirectory(path) THEN ParentDirectory(path) \o << "/" >> \o href ELSE href

\* the last iteration of the spine loop loaded a content document
LoadedLast(r) == conv[r].i > 0 /\ Happened(r, "load", conv[r].i - 1)

C18_ContentPath ==
    \A r \in Reqs :
        LoadedLast(r) =>
            conv[r].filePath =
                ContentPath(Rootfiles(arch[r])[1],
                            ManifestEntry(arch[r], SpineRefs(arch[r])[conv[r].i]).href)

\* a package document at N/O/o: b.html is loaded from N/O/b.html
C18_Witness ==
    \E r \in Reqs :
        /\ Rendered(r)
        /\ LoadedLast(r)
        /\ conv[r].rootfilePath = NestedOpf
        /\ conv[r].filePath = << "N", "/", "O", "/" >> \o HrefB

(***************************************************************************)
(* C19: an iteration of the spine loop over an HTML-like manifest entry    *)
(* whose content path is no entry of the archive, or whose document has no *)
(* body element, raises no error, leaves the markdown written so far as it *)
(* is, and passes on to the next spine item.                               *)
(***************************************************************************)
NothingToRender(archive, idref) ==
    /\ PointsToHtml(archive, idref)
    /\ \/ ContentOf(archive, idref).kind = "undefined"
       \/ /\ ContentOf(archive, idref).kind = "html"
          /\ ContentOf(archive, idref).root = "frameset"

\* request r takes a step of its spine loop
SpineStep(r) ==
    /\ pc[r] = "spine"
    /\ conv[r].i < Len(conv[r].itemrefs)
    /\ << pc[r], conv[r], parse[r] >>' # << pc[r], conv[r], parse[r] >>

C19_SkipMissingContent ==
    [][\A r \in Reqs :
          (SpineStep(r) /\ NothingToRender(arch[r], conv[r].itemrefs[conv[r].i + 1])) =>
              /\ pc'[r] = "spine"
              /\ parse'[r].error = NoError
              /\ conv'[r].markdownContent = conv[r].markdownContent
              /\ conv'[r].i = conv[r].i + 1]_vars

\* the first spine item is a frameset document, the second was rendered
C19_Witness ==
    \E r \in Reqs :
        /\ Rendered(r)
        /\ Len(SpineRefs(arch[r])) = 2
        /\ NothingToRender(arch[r], SpineRefs(arch[r])[1])
        /\ Happened(r, "load", 0) /\ ~Happened(r, "section", 0)
        /\ Happened(r, "section", 1)
        /\ Len(Sections(parse[r].markdown)) = 1

(***************************************************************************)
(* C20: after any calls of addBook, updateBook and deleteBook, getAllBooks *)
(* returns the books in the store, each once, the one with the latest      *)
(* updatedAt first; after updateBook the stored book's updatedAt is the    *)
(* time of the call.                                                       *)
(***************************************************************************)
Stored == { books[id] : id \in DOMAIN books }

C20_ListingOrdered ==
    /\ lastOp.op = "getAllBooks" =>
           LET result == lastOp.result
           IN  /\ { result[k] : k \in 1..Len(result) } = Stored
               /\ Len(result) = Cardinality(DOMAIN books)
               /\ \A k \in 1..(Len(result) - 1) :
                      result[k].updatedAt >= result[k + 1].updatedAt
    /\ lastOp.op = "updateBook" =>
           /\ lastOp.id \in DOMAIN books
           /\ books[lastOp.id].updatedAt = lastOp.time
           /\ \A b \in Stored : b.updatedAt <= lastOp.time

\* the book created first was updated last, and is listed first
C20_Witness ==
    /\ lastOp.op = "getAllBooks"
    /\ Len(lastOp.result) = 3
    /\ lastOp.result[1].createdAt < lastOp.result[2].createdAt
    /\ lastOp.result[1].updatedAt > lastOp.result[2].updatedAt

(***************************************************************************)
(* C21: the loader of the chats route of a book redirects to the chat with *)
(* the latest updatedAt among the chats whose bookId is that book when     *)
(* there is one, and to the new-chat route otherwise; the loader of the    *)
(* new-chat route stores one new chat of that book, titled                 *)
(* "New conversation" and without messages, and redirects to it.           *)
(***************************************************************************)
\* the ids of the stored chats of a book
ChatsWithBook(bookId) == { id \in DOMAIN chats : chats[id].bookId = bookId }

C21_ChatsRouteRedirect ==
    [][/\ (nav' # nav /\ nav'.route = "chats") =>
              /\ chats' = chats
              /\ IF ChatsWithBook(nav'.bookId) = {}
                 THEN nav'.to = NewChatPath(nav'.bookId)
                 ELSE \E id \in ChatsWithBook(nav'.bookId) :
                          /\ nav'.to = ChatPath(id)
                          /\ \A o \in ChatsWithBook(nav'.bookId) :
                                 chats[o].updatedAt <= chats[id].updatedAt
       /\ (nav' # nav /\ nav'.route = "new") =>
              \E id \in DOMAIN chats' \ DOMAIN chats :
                  /\ DOMAIN chats' = DOMAIN chats \cup { id }
                  /\ \A o \in DOMAIN chats : chats'[o] = chats[o]
                  /\ chats'[id].bookId = nav'.bookId
                  /\ chats'[id].title = << "New conversation" >>
                  /\ chats'[id].messages = << >>
                  /\ nav'.to = ChatPath(id)]_vars

\* the book has two chats and the route led to the later one, which is
\* neither the first in key order nor the latest of all chats
C21_Witness ==
    /\ nav.route = "chats"
    /\ nav.to = ChatPath("c2")
    /\ ChatsWithBook(nav.bookId) = { "c1", "c2" }
    /\ chats["c1"].updatedAt < chats["c2"].updatedAt
    /\ "c3" \in DOMAIN chats /\ chats["c3"].updatedAt > chats["c2"].updatedAt

(***************************************************************************)
(* The book page (books.$bookId): saveLocation on every locationChanged    *)
(* event.  A save is two steps, as updateBook awaits twice: the connection *)
(* initDB() asked for is opened, then the put of the record is committed.  *)
(***************************************************************************)
OtherLocation == [stored |-> TRUE, start |-> << "d", "!", "2" >>,
                  end |-> << "e", "!", "1" >>, percentage |-> 1]
EventLocations == { SomeLocation, OtherLocation }

\* mutant: the open requests are answered in any order
AnyOpened(opening) == 1..Len(opening)

\* open requests on one database are answered in the order they were made
NextOpened(opening) == IF opening = << >> THEN {} ELSE { 1 }

\* the sequence without its k-th element
Without(seq, k) == SubSeq(seq, 1, k - 1) \o SubSeq(seq, k + 1, Len(seq))

\* the page is shown with the book its loader read; store, events, last,
\* seen and overlap are the history of the page
MountViewer ==
    /\ ~viewer.mounted
    /\ \E id \in DOMAIN books :
           viewer' = [mounted |-> TRUE, book |-> books[id], store |-> books,
                      opening |-> << >>, puts |-> << >>,
                      events |-> 0, last |-> NoLocation, seen |-> {},
                      overlap |-> FALSE]
    /\ UNCHANGED << uploadVars, books, chatVars, dbVars, nav, page, titling >>

\* rendition emits locationChanged: saveLocation calls updateBook with a
\* copy of the loader's book at { start, end, percentage }, and updateBook
\* asks for a connection
LocationChanged ==
    /\ viewer.mounted
    /\ viewer.events < MaxEvents
    /\ \E location \in EventLocations :
           viewer' = [viewer EXCEPT
               !.opening = Append(@, [viewer.book EXCEPT !.location = location]),
               !.events = @ + 1,
               !.last = location,
               !.seen = @ \cup { location },
               !.overlap = @ \/ viewer.opening # << >> \/ viewer.puts # << >>]
    /\ UNCHANGED << uploadVars, books, chatVars, dbVars, nav, page, titling >>

\* await initDB() returns: updatedAt is set and the put is requested
SaveOpened ==
    /\ viewer.mounted
    /\ \E k \in NextOpened(viewer.opening) :
           viewer' = [viewer EXCEPT
               !.opening = Without(@, k),
               !.puts = Append(@, [viewer.opening[k] EXCEPT !.updatedAt = clock])]
    /\ UNCHANGED << uploadVars, books, chatVars, dbVars, nav, page, titling >>

\* db.put('books', book) is committed; readwrite transactions on one object
\* store are run in the order they were created
SaveCommitted ==
    /\ viewer.mounted
    /\ viewer.puts # << >>
    /\ books' = DbPut(books, Head(viewer.puts))
    /\ viewer' = [viewer EXCEPT !.puts = Tail(@)]
    /\ UNCHANGED << uploadVars, chatVars, dbVars, nav, page, titling >>

(***************************************************************************)
(* Specification of the book page, over stores of one and of two books.    *)
(***************************************************************************)
Shelves ==
    { (1 :> FreshBook(1, 0)),
      (1 :> FreshBook(1, 0)) @@ (2 :> [FreshBook(2, 0) EXCEPT !.location = SomeLocation]) }

InitViewer ==
    /\ arch = [r \in Reqs |-> NotAZip]
    /\ pc = [r \in Reqs |-> "off"]
    /\ conv = [r \in Reqs |-> ConvInit]
    /\ parse = [r \in Reqs |-> ParseInit]
    /\ response = [r \in Reqs |-> ""]
    /\ log = [r \in Reqs |-> << >>]
    /\ books \in Shelves
    /\ NoChat
    /\ NoLibrary

NextViewer ==
    \/ Tick
    \/ MountViewer
    \/ LocationChanged
    \/ SaveOpened
    \/ SaveCommitted

SpecViewer == InitViewer /\ [][NextViewer]_vars

(***************************************************************************)
(* Specification of the library with chats: calls on the 'books' store and *)
(* the chats route, over stores that hold chats and settings.              *)
(***************************************************************************)
InitShelf ==
    /\ arch = [r \in Reqs |-> NotAZip]
    /\ pc = [r \in Reqs |-> "off"]
    /\ conv = [r \in Reqs |-> ConvInit]
    /\ parse = [r \in Reqs |-> ParseInit]
    /\ response = [r \in Reqs |-> ""]
    /\ log = [r \in Reqs |-> << >>]
    /\ books \in Shelves
    /\ settings \in { NoSettings, SomeSettings }
    /\ chats \in { store \in ChatStores :
                       \A id \in DOMAIN store : store[id].updatedAt = 0 }
    /\ loader = LoaderInit
    /\ NoLibrary

NextShelf ==
    \/ Tick
    \/ DbAddBook
    \/ DbUpdateBook
    \/ DbDeleteBook
    \/ OpenChatsRoute

SpecShelf == InitShelf /\ [][NextShelf]_vars

(***************************************************************************)
(* C22: whenever a save of a chat has a title generated, the saved list    *)
(* has at least 2 messages and the chat, as stored, has no real title yet  *)
(* (its title is "New conversation" or empty): a chat that was given a     *)
(* real title has no title generated again.                                *)
(***************************************************************************)
C22_TitleOnlyWhileUntitled ==
    \A k \in 1..Len(page.titleLog) :
        /\ page.titleLog[k].count >= 2
        /\ Untitled(page.titleLog[k].stored)

(***************************************************************************)
(* C23: generateChatTitle returns, and what it returns is not empty: it is *)
(* "New conversation" when no message is a non-system message or the model *)
(* gave no content, the model's answer without the white space around it   *)
(* otherwise, and, when the call failed, the first user message cut to 30  *)
(* characters, with "..." after it only when it was longer, or             *)
(* "New conversation" when there is no user message.                       *)
(***************************************************************************)
\* t is s without the white space at its ends
Trimmed(s, t) ==
    \/ t = << >> /\ \A k \in 1..Len(s) : s[k] \in WhiteSpace
    \/ \E i, j \in 1..Len(s) :
           /\ i <= j
           /\ t = SubSeq(s, i, j)
           /\ s[i] \notin WhiteSpace /\ s[j] \notin WhiteSpace
           /\ \A k \in 1..Len(s) : (k < i \/ k > j) => s[k] \in WhiteSpace

C23_TitleNeverEmpty ==
    titling.pc = "returned" =>
        LET messages == titling.messages
            result == titling.result
            nonSystem == { k \in 1..Len(messages) : messages[k].role # "system" }
            users == { k \in 1..Len(messages) : messages[k].role = "user" }
            answered == titling.api.kind \in { "none", "content" }
            answer == IF titling.api.kind = "content" THEN titling.api.text ELSE << >>
        IN  /\ result # << >>
            /\ nonSystem = {} => result = << "New conversation" >>
            /\ (nonSystem # {} /\ answered) =>
                   IF Trimmed(answer, << >>) THEN result = << "New conversation" >>
                   ELSE Trimmed(answer, result)
            /\ (nonSystem # {} /\ ~answered) =>
                   IF users = {} THEN result = << "New conversation" >>
                   ELSE LET first == messages[SetMin(users)].content
                        IN  result = IF Len(first) > 30
                                     THEN SubSeq(first, 1, 30) \o << "..." >>
                                     ELSE first

\* the call failed and the first user message has 31 characters
C23_Witness ==
    /\ titling.pc = "returned"
    /\ titling.api.kind = "fails"
    /\ Len(titling.messages) = 2
    /\ titling.messages[1].role = "assistant"
    /\ titling.messages[2] = Message("user", Text(31))
    /\ titling.result = Text(30) \o << "..." >>

(***************************************************************************)
(* C25: the message list stored for a chat is empty or ends with an        *)
(* assistant message that is not empty; a send whose request failed, or    *)
(* brought no reply, left the store as it was; and after every send the    *)
(* loading flag is false again.                                            *)
(***************************************************************************)
C25_StoredEndsWithAssistant ==
    /\ \A id \in DOMAIN chats :
           LET stored == chats[id].messages
           IN  \/ stored = << >>
               \/ /\ stored[Len(stored)].role = "assistant"
                  /\ stored[Len(stored)].content # << >>
    /\ page.failed.is => chats = page.failed.before
    /\ page.loading <=> page.send.pc = "request"

\* after an exchange that was stored, a send failed: the page shows three
\* messages, the store has two
C25_Witness ==
    /\ page.failed.is
    /\ ~page.loading
    /\ Len(page.messages) = 3
    /\ page.messages[3].role = "user"
    /\ Len(chats["c1"].messages) = 2

(***************************************************************************)
(* C24: the chat page loader checks its guards in order: with no settings  *)
(* stored it redirects to the settings page; otherwise, with the chat id   *)
(* not stored, it responds 404 "Chat not found"; otherwise, with the       *)
(* chat's book not stored, it responds 404 "Book not found".               *)
(***************************************************************************)
C24_GuardOrder ==
    loader.pc = "done" =>
        IF settings = NoSettings
        THEN loader.result = [kind |-> "redirect", to |-> "/settings"]
        ELSE IF loader.chatId \notin DOMAIN chats
        THEN loader.result = [kind |-> "thrown", what |-> "Response 404: Chat not found"]
        ELSE chats[loader.chatId].bookId \notin DOMAIN books =>
                 loader.result = [kind |-> "thrown", what |-> "Response 404: Book not found"]

(***************************************************************************)
(* C26: after several locationChanged events, once every save they started *)
(* has completed, the stored reading position of the book is that of the   *)
(* most recent event, however the steps of the saves were interleaved; and *)
(* the saves change nothing but the location and updatedAt of the book.    *)
(***************************************************************************)
SavesDone == viewer.opening = << >> /\ viewer.puts = << >>

C27_DeleteOnlyTheBook ==
    [][((lastOp' # lastOp \/ books' # books) /\ lastOp'.op = "deleteBook") =>
           /\ DOMAIN books' = DOMAIN books \ { lastOp'.id }
           /\ \A id \in DOMAIN books' : books'[id] = books[id]
           /\ settings' = settings
           /\ chats' = chats
           /\ { id \in DOMAIN chats' : chats'[id].bookId = lastOp'.id }
                  = ChatsWithBook(lastOp'.id)]_vars

\* book 1 was deleted, book 2 is stored, and the chats route of book 1
\* still leads to a chat of book 1
C27_Witness ==
    /\ lastOp = [op |-> "deleteBook", id |-> 1]
    /\ DOMAIN books = { 2 }
    /\ settings = SomeSettings
    /\ ChatsWithBook(1) # {}
    /\ nav.route = "chats"
    /\ nav.bookId = 1
    /\ \E id \in ChatsWithBook(1) : nav.to = ChatPath(id)

====
